---- MODULE Spec2Model ----
(***************************************************************************)
(* The SSE loss of mlpack's xgboost trees (sse_loss.hpp), as a state       *)
(* machine: one SSELoss object, two caller-owned vectors, and one action   *)
(* per public member function.                                             *)
(*                                                                         *)
(* Numbers.  The vectors hold small integers (exactly representable        *)
(* doubles).  A double that results from a division is the pair <<n, d>>   *)
(* in lowest terms with d > 0; a division by zero gives the IEEE-754       *)
(* outcomes <<1, 0>> (+inf), <<-1, 0>> (-inf) and <<0, 0>> (NaN).          *)
(***************************************************************************)
EXTENDS Integers, Sequences, FiniteSets, TLC

\* Bounds of the model.
MaxLen == 2
MaxVal == 0
MaxAlpha == 1
MaxLambda == 1
MaxCalls == 2

\* The entries of a vector: -1 and the naturals up to MaxVal.
Vals == (0 - 1)..MaxVal
Vecs == UNION {[1..n -> Vals] : n \in 0..MaxLen}

VARIABLES loss, arg1, arg2, call, calls

vars == <<loss, arg1, arg2, call, calls>>

----------------------------------------------------------------------------
\* Arithmetic of the double type.

Abs(x) == IF x < 0 THEN 0 - x ELSE x

Sgn(x) == IF x < 0 THEN 0 - 1 ELSE IF x > 0 THEN 1 ELSE 0

RECURSIVE GCD(_, _)
GCD(a, b) == IF b = 0 THEN a ELSE GCD(b, a % b)

\* operator/ on doubles whose operands are the integers n and d.
Div(n, d) ==
  IF d = 0 THEN <<Sgn(n), 0>>
  ELSE LET g == GCD(Abs(n), Abs(d))
       IN <<(Sgn(d) * n) \div g, Abs(d) \div g>>

\* std::pow with exponent 1.
Pow2_Exponent1(x) == x

\* std::pow(x, 2)
Pow2(x) == x * x

\* arma::accu
RECURSIVE accu(_)
accu(v) == IF v = <<>> THEN 0 ELSE Head(v) + accu(Tail(v))

\* VecType::subvec(begin, end): 0-based, both ends included.
subvec(v, begin, end) == SubSeq(v, begin + 1, end + 1)

----------------------------------------------------------------------------
\* class SSELoss

\* SSELoss(const double alpha, const double lambda)
SSELoss(alpha, lambda) == [alpha |-> alpha, lambda |-> lambda]

\* SSELoss(): no regularization.
SSELossDefault == [alpha |-> 0, lambda |-> 0]

\* InitialPrediction without the sanity check for the empty vector.
InitialPrediction_NoEmptyCheck(values) ==
  Div(accu(values), Len(values))

InitialPrediction(values) ==
  IF Len(values) = 0 THEN <<0, 1>>
  ELSE Div(accu(values), Len(values))

\* Gradients with the operands of the subtraction swapped.
Gradients_Swapped(observed, values) ==
  [i \in 1..Len(values) |-> observed[i] - values[i]]

Gradients(observed, values) ==
  [i \in 1..Len(values) |-> values[i] - observed[i]]

\* Hessians sized by the wrong argument.
Hessians_SizedByObserved(observed, values) ==
  [i \in 1..Len(observed) |-> 1]

Hessians(observed, values) ==
  [i \in 1..Len(values) |-> 1]

\* Residuals with the operands of the subtraction swapped.
Residuals_Swapped(observed, f) ==
  [i \in 1..Len(observed) |-> f[i] - observed[i]]

Residuals(observed, f) ==
  [i \in 1..Len(observed) |-> observed[i] - f[i]]

\* ApplyL1 subtracting alpha in the negative branch as well.
ApplyL1_SameSign(self, sumGradients) ==
  IF sumGradients > self.alpha THEN sumGradients - self.alpha
  ELSE IF sumGradients < 0 - self.alpha THEN sumGradients - self.alpha
  ELSE 0

ApplyL1(self, sumGradients) ==
  IF sumGradients > self.alpha THEN sumGradients - self.alpha
  ELSE IF sumGradients < 0 - self.alpha THEN sumGradients + self.alpha
  ELSE 0

\* OutputValue without the leading negation.
OutputValue_NoNegation(self, gradients, hessians) ==
  Div(ApplyL1(self, accu(gradients)), accu(hessians) + self.lambda)

OutputValue(self, gradients, hessians) ==
  Div(0 - ApplyL1(self, accu(gradients)), accu(hessians) + self.lambda)

\* The gradients of SimilarityScore taken from the residuals slice twice.
SimilarityScoreGradients_ResidualsTwice(observed, residuals, begin, end) ==
  Gradients(subvec(residuals, begin, end), subvec(residuals, begin, end))

\* The local `gradients` of SimilarityScore.
SimilarityScoreGradients(observed, residuals, begin, end) ==
  Gradients(subvec(observed, begin, end), subvec(residuals, begin, end))

\* The local `hessians` of SimilarityScore.
SimilarityScoreHessians(observed, residuals, begin, end) ==
  Hessians(subvec(observed, begin, end), subvec(residuals, begin, end))

\* SimilarityScore without lambda in the denominator.
SimilarityScore_NoLambda(self, observed, residuals, begin, end) ==
  Div(Pow2(ApplyL1(self,
             accu(SimilarityScoreGradients(observed, residuals, begin, end)))),
      accu(SimilarityScoreHessians(observed, residuals, begin, end)))

SimilarityScore(self, observed, residuals, begin, end) ==
  Div(Pow2(ApplyL1(self,
             accu(SimilarityScoreGradients(observed, residuals, begin, end)))),
      accu(SimilarityScoreHessians(observed, residuals, begin, end))
        + self.lambda)

----------------------------------------------------------------------------
\* The state machine.

NoCall == [op |-> "none", begin |-> 0, end |-> 0,
           sumGradients |-> 0, l1 |-> 0, ret |-> <<>>]

\* The object after construction (alpha >= 0, lambda >= 0) and the two
\* vectors the caller holds; their lengths are independent.
Init ==
  /\ loss \in {SSELossDefault}
               \cup {SSELoss(a, l) : a \in 0..MaxAlpha, l \in 0..MaxLambda}
  /\ arg1 \in Vecs
  /\ arg2 \in Vecs
  /\ call = NoCall
  /\ calls = 0

CallInitialPrediction ==
  /\ calls < MaxCalls
  /\ call' = [NoCall EXCEPT !.op = "InitialPrediction",
                            !.ret = InitialPrediction(arg2)]
  /\ calls' = calls + 1
  /\ UNCHANGED <<loss, arg1, arg2>>

\* values - observed needs operands of one size.
CallGradients ==
  /\ calls < MaxCalls
  /\ Len(arg1) = Len(arg2)
  /\ call' = [NoCall EXCEPT !.op = "Gradients",
                            !.ret = Gradients(arg1, arg2)]
  /\ calls' = calls + 1
  /\ UNCHANGED <<loss, arg1, arg2>>

\* Hessians filling its `values` argument with ones in place.
CallHessians_InPlace ==
  /\ calls < MaxCalls
  /\ call' = [NoCall EXCEPT !.op = "Hessians",
                            !.ret = Hessians(arg1, arg2)]
  /\ arg2' = Hessians(arg1, arg2)
  /\ calls' = calls + 1
  /\ UNCHANGED <<loss, arg1>>

CallHessians ==
  /\ calls < MaxCalls
  /\ call' = [NoCall EXCEPT !.op = "Hessians",
                            !.ret = Hessians(arg1, arg2)]
  /\ calls' = calls + 1
  /\ UNCHANGED <<loss, arg1, arg2>>

CallResiduals ==
  /\ calls < MaxCalls
  /\ Len(arg1) = Len(arg2)
  /\ call' = [NoCall EXCEPT !.op = "Residuals",
                            !.ret = Residuals(arg1, arg2)]
  /\ calls' = calls + 1
  /\ UNCHANGED <<loss, arg1, arg2>>

CallOutputValue ==
  /\ calls < MaxCalls
  /\ call' = [NoCall EXCEPT !.op = "OutputValue",
                            !.sumGradients = accu(arg1),
                            !.l1 = ApplyL1(loss, accu(arg1)),
                            !.ret = OutputValue(loss, arg1, arg2)]
  /\ calls' = calls + 1
  /\ UNCHANGED <<loss, arg1, arg2>>

\* subvec needs begin <= end < n_elem in both vectors.
CallSimilarityScore ==
  /\ calls < MaxCalls
  /\ Len(arg1) = Len(arg2)
  /\ \E begin \in 0..(Len(arg1) - 1) : \E end \in begin..(Len(arg1) - 1) :
       LET s == accu(SimilarityScoreGradients(arg1, arg2, begin, end))
       IN call' = [op |-> "SimilarityScore", begin |-> begin, end |-> end,
                   sumGradients |-> s, l1 |-> ApplyL1(loss, s),
                   ret |-> SimilarityScore(loss, arg1, arg2, begin, end)]
  /\ calls' = calls + 1
  /\ UNCHANGED <<loss, arg1, arg2>>

Next ==
  \/ CallInitialPrediction
  \/ CallGradients
  \/ CallHessians
  \/ CallResiduals
  \/ CallOutputValue
  \/ CallSimilarityScore

Spec == Init /\ [][Next]_vars

----------------------------------------------------------------------------
\* The properties.

\* The sum of the 1-based entries lo..hi of v, by index.
RECURSIVE SumIdx(_, _, _)
SumIdx(v, lo, hi) == IF lo > hi THEN 0 ELSE v[hi] + SumIdx(v, lo, hi - 1)

\* The double r is finite and equals the quotient n / d.
RatEq(r, n, d) == d # 0 /\ r[2] > 0 /\ r[1] * d = n * r[2]

\* Soft-thresholding of s by a, as the text states it.
SoftThreshold(s, a) ==
  CASE s > a -> s - a
    [] s < 0 - a -> s + a
    [] OTHER -> 0

\* The sum over the 0-based range [begin, end] of residuals[i] - observed[i].
RangeGradientSum(observed, residuals, begin, end) ==
  SumIdx(residuals, begin + 1, end + 1) - SumIdx(observed, begin + 1, end + 1)

\* C1: InitialPrediction returns 0 for the empty vector and the arithmetic
\* mean sum(values) / len(values) for every non-empty one.
C1_InitialPredictionIsMean ==
  call.op = "InitialPrediction" =>
    IF Len(arg2) = 0
    THEN call.ret = <<0, 1>>
    ELSE RatEq(call.ret, SumIdx(arg2, 1, Len(arg2)), Len(arg2))

C1_Witness ==
  /\ call.op = "InitialPrediction"
  /\ Len(arg2) = 2
  /\ call.ret = <<0 - 1, 2>>

\* C2: over every valid inclusive range, SimilarityScore equals
\* ApplyL1(S)^2 / ((end - begin + 1) + lambda) with S the sum of
\* residuals[i] - observed[i] over the range; the three worked scenarios on
\* observed = [1,2,3,4], residuals = [1,1,1,1] give 9, 6 and 6.25.
C2_SimilarityScoreFormula ==
  /\ call.op = "SimilarityScore" =>
       LET S == RangeGradientSum(arg1, arg2, call.begin, call.end)
           T == SoftThreshold(S, loss.alpha)
       IN RatEq(call.ret, T * T, (call.end - call.begin + 1) + loss.lambda)
  /\ SimilarityScore(SSELossDefault, <<1, 2, 3, 4>>, <<1, 1, 1, 1>>, 0, 3)
       = <<9, 1>>
  /\ SimilarityScore(SSELoss(0, 2), <<1, 2, 3, 4>>, <<1, 1, 1, 1>>, 0, 3)
       = <<6, 1>>
  /\ SimilarityScore(SSELoss(1, 0), <<1, 2, 3, 4>>, <<1, 1, 1, 1>>, 0, 3)
       = <<25, 4>>

C2_Witness ==
  /\ call.op = "SimilarityScore"
  /\ call.begin = 0
  /\ call.end = 1
  /\ loss.alpha = 1
  /\ loss.lambda = 1
  /\ call.sumGradients = 0 - 2
  /\ call.ret = <<1, 3>>

\* C3: whenever sum(hessians) + lambda is non-zero, OutputValue equals
\* -ApplyL1(sum(gradients)) / (sum(hessians) + lambda); with alpha = 0 that
\* is -sum(gradients) / (sum(hessians) + lambda), and with lambda = 0 as well
\* it is -sum(gradients) / sum(hessians).
C3_OutputValueFormula ==
  LET g == SumIdx(arg1, 1, Len(arg1))
      h == SumIdx(arg2, 1, Len(arg2))
  IN (call.op = "OutputValue" /\ h + loss.lambda # 0) =>
       /\ RatEq(call.ret, 0 - SoftThreshold(g, loss.alpha), h + loss.lambda)
       /\ loss.alpha = 0 => RatEq(call.ret, 0 - g, h + loss.lambda)
       /\ (loss.alpha = 0 /\ loss.lambda = 0) => RatEq(call.ret, 0 - g, h)

C3_Witness ==
  /\ call.op = "OutputValue"
  /\ loss.alpha = 1
  /\ loss.lambda = 1
  /\ call.sumGradients = 0 - 2
  /\ call.ret = <<0 - 1, 1>>

\* C4: with alpha >= 0 and lambda >= 0, SimilarityScore is a finite
\* non-negative number over every valid range.
C4_SimilarityScoreNonNegative ==
  (call.op = "SimilarityScore" /\ loss.alpha >= 0 /\ loss.lambda >= 0) =>
    (call.ret[2] > 0 /\ call.ret[1] >= 0)

C4_Witness ==
  /\ call.op = "SimilarityScore"
  /\ call.l1 < 0
  /\ call.ret[1] > 0

\* C5: Gradients has the length of its arguments and its i-th entry is
\* values[i] - observed[i], positive exactly when values[i] > observed[i].
C5_GradientsElementwise ==
  call.op = "Gradients" =>
    /\ Len(call.ret) = Len(arg2)
    /\ \A i \in 1..Len(arg2) :
         /\ call.ret[i] = arg2[i] - arg1[i]
         /\ call.ret[i] > 0 <=> arg2[i] > arg1[i]

C5_Witness ==
  /\ call.op = "Gradients"
  /\ Len(call.ret) = 2
  /\ call.ret[1] > 0
  /\ call.ret[2] < 0

\* C6: Residuals is element-wise observed - f, and is the element-wise
\* negation of Gradients(observed, f).
C6_ResidualsNegateGradients ==
  call.op = "Residuals" =>
    /\ Len(call.ret) = Len(arg1)
    /\ Len(call.ret) = Len(Gradients(arg1, arg2))
    /\ \A i \in 1..Len(arg1) :
         /\ call.ret[i] = arg1[i] - arg2[i]
         /\ call.ret[i] = 0 - Gradients(arg1, arg2)[i]

C6_Witness ==
  /\ call.op = "Residuals"
  /\ Len(call.ret) = 2
  /\ call.ret[1] = 1
  /\ call.ret[2] = 0 - 1

\* C7: Hessians is len(values) ones, whatever observed is (its length
\* included) and whatever values holds.
C7_HessiansAreOnes ==
  call.op = "Hessians" =>
    /\ Len(call.ret) = Len(arg2)
    /\ \A i \in 1..Len(arg2) : call.ret[i] = 1

C7_Witness ==
  /\ call.op = "Hessians"
  /\ Len(arg1) # Len(arg2)
  /\ Len(call.ret) = 2
  /\ arg2[1] = 0 - 1

C9_ApplyL1SoftThreshold ==
  /\ call.op \in {"OutputValue", "SimilarityScore"} =>
       call.l1 = SoftThreshold(call.sumGradients, loss.alpha)
  /\ ApplyL1(SSELoss(2, 0), 5) = 3
  /\ ApplyL1(SSELoss(2, 0), 0 - 5) = 0 - 3
  /\ ApplyL1(SSELoss(2, 0), 1) = 0
  /\ ApplyL1(SSELoss(2, 0), 0 - 1) = 0
  /\ ApplyL1(SSELoss(2, 0), 2) = 0
  /\ ApplyL1(SSELoss(2, 0), 0 - 2) = 0

C9_Witness ==
  /\ call.op = "SimilarityScore"
  /\ loss.alpha = 1
  /\ call.sumGradients = 0 - 2
  /\ call.l1 = 0 - 1

\* C10 as stated: the gradient sum SimilarityScore feeds to ApplyL1 is 0
\* whatever observed holds.
C10_GradientSumAlwaysZero ==
  call.op = "SimilarityScore" => call.sumGradients = 0

\* C10 as amended: SimilarityScore takes its gradients from the observed
\* slice and the residuals slice, so the sum it feeds to ApplyL1 is the sum
\* of residuals[i] - observed[i] over the range, and the Hessian sum is the
\* length of the range.
C10_GradientSumFromBothSlices ==
  call.op = "SimilarityScore" =>
    /\ call.sumGradients = RangeGradientSum(arg1, arg2, call.begin, call.end)
    /\ accu(SimilarityScoreHessians(arg1, arg2, call.begin, call.end))
         = call.end - call.begin + 1

C10_Witness ==
  /\ call.op = "SimilarityScore"
  /\ call.begin = 1
  /\ call.end = 1
  /\ arg1[1] = arg2[1]
  /\ call.sumGradients = 1

====
